---- MODULE Spec2Model ----
(***************************************************************************)
(* Model of the vault file-tree tool (buildFileTree, createGetFileTreeTool), *)
(* of the AgentReasoningBlock component and of the reasoning marker        *)
(* (serializeReasoningBlock, parseReasoningBlock) of obsidian-copilot.     *)
(* The three share no state: each has its own specification, in which the  *)
(* variables of the other two stay at their initial values.                *)
(*                                                                         *)
(* Strings are run-length encoded: a sequence of segments [c, n], each n   *)
(* copies of the character c, so that a name of several hundred thousand   *)
(* characters is one short sequence.  JavaScript objects are sequences of  *)
(* [k, v] entries in insertion order, which is the order JSON.stringify    *)
(* writes them in; arrays are sequences.  Names are drawn from strings     *)
(* that are neither integer-like nor a property of Object.prototype and    *)
(* hold no character that JSON escapes.                                    *)
(***************************************************************************)
EXTENDS Integers, Sequences, FiniteSets, TLC

\* the file-tree tool: the vault, the position in func and its locals
VARIABLES root, pc, args, tree, jsonResult, simplifiedTree, ret, calls, out

\* the AgentReasoningBlock component: its props, its state, its last render
VARIABLES status, steps, isExpanded, effectDue, view, clicked

\* the reasoning marker: the state serialized, the message text, the text
\* given to parseReasoningBlock and what it returned
VARIABLES state, message, content, parsed

toolVars == <<root, pc, args, tree, jsonResult, simplifiedTree, ret, calls, out>>

blockVars == <<status, steps, isExpanded, effectDue, view, clicked>>

markerVars == <<state, message, content, parsed>>

vars == <<toolVars, blockVars, markerVars>>

----------------------------------------------------------------------------
(* Bounds *)

MaxNodes == 3

----------------------------------------------------------------------------
(* Strings *)

\* the characters of a JavaScript string literal, one segment each
Str(chars) == [i \in 1..Len(chars) |-> [c |-> chars[i], n |-> 1]]

\* n filler characters
Run(n) == <<[c |-> "x", n |-> n]>>

\* the sum of the segment lengths from lo to hi
RECURSIVE StrLenRange(_, _, _)
StrLenRange(s, lo, hi) ==
  IF lo > hi THEN 0 ELSE s[lo].n + StrLenRange(s, lo + 1, hi)

\* the sum of the segment lengths from lo on, sixteen segments at a time
RECURSIVE StrLenFrom(_, _)
StrLenFrom(s, lo) ==
  IF lo > Len(s) THEN 0
  ELSE StrLenRange(s, lo, IF lo + 15 < Len(s) THEN lo + 15 ELSE Len(s))
       + StrLenFrom(s, lo + 16)

\* s.length
StrLen(s) == StrLenFrom(s, 1)

\* the letters String.prototype.toLowerCase changes, and what it makes of them
UpperCase ==
  <<"A", "B", "C", "D", "E", "F", "G", "H", "I", "J", "K", "L", "M",
    "N", "O", "P", "Q", "R", "S", "T", "U", "V", "W", "X", "Y", "Z">>

LowerCase ==
  <<"a", "b", "c", "d", "e", "f", "g", "h", "i", "j", "k", "l", "m",
    "n", "o", "p", "q", "r", "s", "t", "u", "v", "w", "x", "y", "z">>

LowerChar(c) ==
  IF \E i \in 1..26 : UpperCase[i] = c
  THEN LowerCase[CHOOSE i \in 1..26 : UpperCase[i] = c]
  ELSE c

toLowerCase(s) == [i \in 1..Len(s) |-> [c |-> LowerChar(s[i].c), n |-> s[i].n]]

\* filename.split("."): the parts between the dots, at least one part
RECURSIVE SplitDot(_, _, _)
SplitDot(s, i, cur) ==
  IF i > Len(s) THEN <<cur>>
  ELSE IF s[i].c = "." THEN <<cur>> \o SplitDot(s, i + 1, <<>>)
  ELSE SplitDot(s, i + 1, Append(cur, s[i]))

split(s) == SplitDot(s, 1, <<>>)

\* mutant: the extension keeps the case of the file name
getFileExtension_CaseKept(filename) ==
  LET parts == split(filename)
  IN  IF Len(parts) > 1 THEN parts[Len(parts)] ELSE <<>>

getFileExtension(filename) ==
  LET parts == split(filename)
  IN  IF Len(parts) > 1 THEN toLowerCase(parts[Len(parts)]) ELSE <<>>

\* string literals of the source
Vault == Str(<<"v", "a", "u", "l", "t">>)
Unknown == Str(<<"u", "n", "k", "n", "o", "w", "n">>)
FilesKey == Str(<<"f", "i", "l", "e", "s">>)
SubFoldersKey == Str(<<"s", "u", "b", "F", "o", "l", "d", "e", "r", "s">>)
ExtensionCountsKey ==
  Str(<<"e", "x", "t", "e", "n", "s", "i", "o", "n", "C", "o", "u", "n", "t", "s">>)

----------------------------------------------------------------------------
(* JavaScript objects: entries in insertion order *)

\* k in o (own property)
HasKey(o, k) == \E i \in 1..Len(o) : o[i].k = k

\* o[k] for a key that is present
ObjGet(o, k) == o[CHOOSE i \in 1..Len(o) : o[i].k = k].v

\* o[k] = v
ObjSet(o, k, v) ==
  IF HasKey(o, k)
  THEN [i \in 1..Len(o) |-> IF o[i].k = k THEN [k |-> k, v |-> v] ELSE o[i]]
  ELSE Append(o, [k |-> k, v |-> v])

\* Object.keys(o)
ObjKeys(o) == [i \in 1..Len(o) |-> o[i].k]

\* counts[k] || 0
CountOrZero(o, k) == IF HasKey(o, k) THEN ObjGet(o, k) ELSE 0

----------------------------------------------------------------------------
(* The vault hierarchy *)

isTFolder(item) == "children" \in DOMAIN item

isTFile(item) == ~("children" \in DOMAIN item)

\* the decision of the external pattern filter for one file
shouldIndexFile(child) == child.keep

----------------------------------------------------------------------------
(* buildFileTree *)

\* mutant: the merge assigns the subfolder's count instead of adding it
RECURSIVE MergeCounts_Assign(_, _, _)
MergeCounts_Assign(extensionCounts, entries, i) ==
  IF i > Len(entries) THEN extensionCounts
  ELSE MergeCounts_Assign(
         ObjSet(extensionCounts, entries[i].k, entries[i].v), entries, i + 1)

\* the for-loop over Object.entries(childNode.extensionCounts)
RECURSIVE MergeCounts(_, _, _)
MergeCounts(extensionCounts, entries, i) ==
  IF i > Len(entries) THEN extensionCounts
  ELSE MergeCounts(
         ObjSet(extensionCounts, entries[i].k,
                CountOrZero(extensionCounts, entries[i].k) + entries[i].v),
         entries, i + 1)

\* mutant: the name is listed before the filter is asked
AddFile_BeforeFilter(acc, child, includeFiles) ==
  LET listed == IF includeFiles THEN Append(acc.files, child.name) ELSE acc.files
  IN  IF shouldIndexFile(child)
      THEN LET e0 == getFileExtension(child.name)
               ext == IF e0 = <<>> THEN Unknown ELSE e0
           IN  [files |-> listed,
                extensionCounts |->
                  ObjSet(acc.extensionCounts, ext,
                         CountOrZero(acc.extensionCounts, ext) + 1),
                subFolders |-> acc.subFolders]
      ELSE [files |-> listed, extensionCounts |-> acc.extensionCounts,
            subFolders |-> acc.subFolders]

\* one qualifying-or-not file child: the body of the isTFile branch
AddFile(acc, child, includeFiles) ==
  IF shouldIndexFile(child)
  THEN LET e0 == getFileExtension(child.name)
           ext == IF e0 = <<>> THEN Unknown ELSE e0
       IN  [files |-> IF includeFiles
                      THEN Append(acc.files, child.name)
                      ELSE acc.files,
            extensionCounts |->
              IF ext # <<>>
              THEN ObjSet(acc.extensionCounts, ext,
                          CountOrZero(acc.extensionCounts, ext) + 1)
              ELSE acc.extensionCounts,
            subFolders |-> acc.subFolders]
  ELSE acc

\* mutant: a subfolder counts as content only if its node has a field
AddSubFolder_NeedsFields(acc, child, subResult) ==
  LET hasContent == HasKey(subResult, child.name)
                      /\ Len(ObjGet(subResult, child.name)) > 0
      childNode == ObjGet(subResult, child.name)
  IN  IF hasContent
      THEN [files |-> acc.files,
            extensionCounts |->
              IF HasKey(childNode, ExtensionCountsKey)
              THEN MergeCounts(acc.extensionCounts,
                               ObjGet(childNode, ExtensionCountsKey), 1)
              ELSE acc.extensionCounts,
            subFolders |-> ObjSet(acc.subFolders, child.name, childNode)]
      ELSE acc

\* one folder child, given the result of the recursive call on it
AddSubFolder(acc, child, subResult) ==
  LET hasContent == HasKey(subResult, child.name)
      childNode == ObjGet(subResult, child.name)
  IN  IF hasContent
      THEN [files |-> acc.files,
            extensionCounts |->
              IF HasKey(childNode, ExtensionCountsKey)
              THEN MergeCounts(acc.extensionCounts,
                               ObjGet(childNode, ExtensionCountsKey), 1)
              ELSE acc.extensionCounts,
            subFolders |-> ObjSet(acc.subFolders, child.name, childNode)]
      ELSE acc

\* mutant: an empty folder is reported as an empty node whatever the flag
MakeResult_KeepEmpty(folder, acc, includeFiles, includeEmptyFolders) ==
  LET n1 == IF Len(ObjKeys(acc.extensionCounts)) > 0
            THEN ObjSet(<<>>, ExtensionCountsKey, acc.extensionCounts)
            ELSE <<>>
      n2 == IF includeFiles /\ Len(acc.files) > 0
            THEN ObjSet(n1, FilesKey, acc.files)
            ELSE n1
      node == IF Len(ObjKeys(acc.subFolders)) > 0
              THEN ObjSet(n2, SubFoldersKey, acc.subFolders)
              ELSE n2
  IN  IF folder.name # <<>>
      THEN ObjSet(<<>>, folder.name, node)
      ELSE ObjSet(<<>>, Vault, node)

\* mutant: emptiness is decided on the file list instead of the histogram
MakeResult_FilesEmptiness(folder, acc, includeFiles, includeEmptyFolders) ==
  LET hasFiles == Len(acc.files) > 0
      hasSubFolders == Len(ObjKeys(acc.subFolders)) > 0
      isEmpty == ~hasFiles /\ ~hasSubFolders
      n1 == IF Len(ObjKeys(acc.extensionCounts)) > 0
            THEN ObjSet(<<>>, ExtensionCountsKey, acc.extensionCounts)
            ELSE <<>>
      n2 == IF includeFiles /\ Len(acc.files) > 0
            THEN ObjSet(n1, FilesKey, acc.files)
            ELSE n1
      node == IF Len(ObjKeys(acc.subFolders)) > 0
              THEN ObjSet(n2, SubFoldersKey, acc.subFolders)
              ELSE n2
  IN  IF isEmpty /\ ~includeEmptyFolders THEN <<>>
      ELSE IF isEmpty /\ includeEmptyFolders
           THEN IF folder.name # <<>>
                THEN ObjSet(<<>>, folder.name, <<>>)
                ELSE ObjSet(<<>>, Vault, <<>>)
      ELSE IF folder.name # <<>>
           THEN ObjSet(<<>>, folder.name, node)
           ELSE ObjSet(<<>>, Vault, node)

\* mutant: the three fields are always assigned
MakeResult_AllFields(folder, acc, includeFiles, includeEmptyFolders) ==
  LET hasFiles == Len(ObjKeys(acc.extensionCounts)) > 0
      hasSubFolders == Len(ObjKeys(acc.subFolders)) > 0
      isEmpty == ~hasFiles /\ ~hasSubFolders
      node == <<[k |-> ExtensionCountsKey, v |-> acc.extensionCounts],
                [k |-> FilesKey, v |-> acc.files],
                [k |-> SubFoldersKey, v |-> acc.subFolders]>>
  IN  IF isEmpty /\ ~includeEmptyFolders THEN <<>>
      ELSE IF isEmpty /\ includeEmptyFolders
           THEN IF folder.name # <<>>
                THEN ObjSet(<<>>, folder.name, <<>>)
                ELSE ObjSet(<<>>, Vault, <<>>)
      ELSE IF folder.name # <<>>
           THEN ObjSet(<<>>, folder.name, node)
           ELSE ObjSet(<<>>, Vault, node)

\* the node assembled after the loop and the mapping returned
MakeResult(folder, acc, includeFiles, includeEmptyFolders) ==
  LET hasFiles == Len(ObjKeys(acc.extensionCounts)) > 0
      hasSubFolders == Len(ObjKeys(acc.subFolders)) > 0
      isEmpty == ~hasFiles /\ ~hasSubFolders
      n1 == IF Len(ObjKeys(acc.extensionCounts)) > 0
            THEN ObjSet(<<>>, ExtensionCountsKey, acc.extensionCounts)
            ELSE <<>>
      n2 == IF includeFiles /\ Len(acc.files) > 0
            THEN ObjSet(n1, FilesKey, acc.files)
            ELSE n1
      node == IF Len(ObjKeys(acc.subFolders)) > 0
              THEN ObjSet(n2, SubFoldersKey, acc.subFolders)
              ELSE n2
  IN  IF isEmpty /\ ~includeEmptyFolders THEN <<>>
      ELSE IF isEmpty /\ includeEmptyFolders
           THEN IF folder.name # <<>>
                THEN ObjSet(<<>>, folder.name, <<>>)
                ELSE ObjSet(<<>>, Vault, <<>>)
      ELSE IF folder.name # <<>>
           THEN ObjSet(<<>>, folder.name, node)
           ELSE ObjSet(<<>>, Vault, node)

RECURSIVE buildFileTree(_, _, _)
RECURSIVE BuildLoop(_, _, _, _, _)

\* the for-loop over folder.children; acc holds the three local collections
BuildLoop(folder, includeFiles, includeEmptyFolders, i, acc) ==
  IF i > Len(folder.children) THEN acc
  ELSE
    LET child == folder.children[i]
        next ==
          IF isTFile(child) THEN AddFile(acc, child, includeFiles)
          ELSE IF isTFolder(child)
               THEN AddSubFolder(acc, child,
                      buildFileTree(child, includeFiles, includeEmptyFolders))
               ELSE acc
    IN  BuildLoop(folder, includeFiles, includeEmptyFolders, i + 1, next)

\* mutant: the includeFiles flag is not honoured, file names are always listed
buildFileTree_AlwaysLists(folder, includeFiles, includeEmptyFolders) ==
  MakeResult(folder,
             BuildLoop(folder, TRUE, includeEmptyFolders, 1,
                       [files |-> <<>>, extensionCounts |-> <<>>,
                        subFolders |-> <<>>]),
             TRUE, includeEmptyFolders)

buildFileTree(folder, includeFiles, includeEmptyFolders) ==
  MakeResult(folder,
             BuildLoop(folder, includeFiles, includeEmptyFolders, 1,
                       [files |-> <<>>, extensionCounts |-> <<>>,
                        subFolders |-> <<>>]),
             includeFiles, includeEmptyFolders)

----------------------------------------------------------------------------
(* JSON.stringify of a Record<string, FileTreeNode> *)

Ch(c) == <<[c |-> c, n |-> 1]>>

Quote(s) == Ch("\"") \o s \o Ch("\"")

DigitChar(d) ==
  CASE d = 0 -> "0" [] d = 1 -> "1" [] d = 2 -> "2" [] d = 3 -> "3"
    [] d = 4 -> "4" [] d = 5 -> "5" [] d = 6 -> "6" [] d = 7 -> "7"
    [] d = 8 -> "8" [] d = 9 -> "9"

RECURSIVE Digits(_)
Digits(n) == IF n < 10 THEN Ch(DigitChar(n))
             ELSE Digits(n \div 10) \o Ch(DigitChar(n % 10))

\* the members of an array or object, separated by commas
RECURSIVE Join(_)
Join(parts) ==
  IF parts = <<>> THEN <<>>
  ELSE IF Len(parts) = 1 THEN parts[1]
  ELSE parts[1] \o Ch(",") \o Join(Tail(parts))

StringifyCounts(o) ==
  Ch("{") \o Join([i \in 1..Len(o) |-> Quote(o[i].k) \o Ch(":") \o Digits(o[i].v)])
          \o Ch("}")

StringifyFiles(a) ==
  Ch("[") \o Join([i \in 1..Len(a) |-> Quote(a[i])]) \o Ch("]")

RECURSIVE StringifyTree(_)
RECURSIVE StringifyNode(_)

StringifyNode(node) ==
  Ch("{") \o
  Join([i \in 1..Len(node) |->
          Quote(node[i].k) \o Ch(":") \o
          (IF node[i].k = ExtensionCountsKey THEN StringifyCounts(node[i].v)
           ELSE IF node[i].k = FilesKey THEN StringifyFiles(node[i].v)
           ELSE StringifyTree(node[i].v))]) \o
  Ch("}")

StringifyTree(t) ==
  Ch("{") \o
  Join([i \in 1..Len(t) |-> Quote(t[i].k) \o Ch(":") \o StringifyNode(t[i].v)]) \o
  Ch("}")

----------------------------------------------------------------------------
(* createGetFileTreeTool: the tool function *)

Threshold == 500000

\* the template literal explaining the schema: 450 characters of fixed text
PromptLength == 450
Prompt == <<[c |-> "prompt", n |-> PromptLength]>>

\* mutant: the boundary belongs to the degraded side
TooLarge_Inclusive(json) == StrLen(json) >= Threshold

\* jsonResult.length > 500000
TooLarge(json) == StrLen(json) > Threshold

----------------------------------------------------------------------------
(* The vaults considered *)

LongPad == Threshold - 55

File(name, keep) == [name |-> name, keep |-> keep]

Folder(name, children) == [name |-> name, children |-> children]

AMd == Str(<<"a", ".", "m", "d">>)
BMD == Str(<<"b", ".", "M", "D">>)
Readme == Str(<<"R", "E", "A", "D", "M", "E">>)
NTmp == Str(<<"n", ".", "t", "m", "p">>)
Archive == Str(<<"A", "r", "c", "h", "i", "v", "e">>)
Notes == Str(<<"n", "o", "t", "e", "s">>)

FileItems ==
  { File(AMd, TRUE), File(Run(LongPad) \o AMd, TRUE),
    File(Run(LongPad + 1) \o AMd, TRUE), File(BMD, TRUE),
    File(Readme, TRUE), File(NTmp, FALSE) }

FolderNames == { Archive, Notes, Run(Threshold) \o Notes }

\* no two children of one folder share a name
DistinctNames(children) ==
  \A i, j \in 1..Len(children) : i # j => children[i].name # children[j].name

\* the child lists made of at most n files and folders in all
RECURSIVE Forests(_)
Forests(n) ==
  IF n = 0 THEN { <<>> }
  ELSE { <<>> }
       \cup { c \in { <<f>> \o rest : f \in FileItems, rest \in Forests(n - 1) } :
                DistinctNames(c) }
       \cup UNION { { c \in { <<Folder(nm, sub)>> \o rest :
                              nm \in FolderNames, sub \in Forests(k),
                              rest \in Forests(n - 1 - k) } :
                        DistinctNames(c) } : k \in 0..(n - 1) }

\* the vault root has the empty name
Roots == { Folder(<<>>, c) : c \in Forests(MaxNodes) }

\* a folder and every folder below it
RECURSIVE FoldersOf(_)
FoldersOf(folder) ==
  {folder} \cup UNION { FoldersOf(folder.children[i]) :
                         i \in { j \in 1..Len(folder.children) :
                                   isTFolder(folder.children[j]) } }

----------------------------------------------------------------------------
(* The parts of the state a specification leaves alone *)

\* what a block that displays nothing has rendered
Nothing == [rendered |-> FALSE, open |-> FALSE, disabled |-> TRUE]

\* no reasoning block is mounted
BlockAbsent ==
  /\ status = "idle"
  /\ steps = 0
  /\ isExpanded = FALSE
  /\ effectDue = FALSE
  /\ view = Nothing
  /\ clicked = FALSE

\* parseReasoningBlock has not been called
NotCalled == [called |-> FALSE]

\* no marker is being written or read
MarkerAbsent ==
  /\ state = [status |-> "idle", elapsedSeconds |-> 0, steps |-> <<>>]
  /\ message = <<>>
  /\ content = <<>>
  /\ parsed = NotCalled

\* the tool is not running, on an empty vault
ToolAbsent ==
  /\ root = Folder(<<>>, <<>>)
  /\ pc = "idle"
  /\ args = <<>>
  /\ tree = <<>>
  /\ jsonResult = <<>>
  /\ simplifiedTree = <<>>
  /\ ret = <<>>
  /\ calls = <<>>
  /\ out = <<>>

----------------------------------------------------------------------------
(* State machine *)

ArgsValues == { [fullListing |-> TRUE], [fullListing |-> FALSE], <<>> }

\* args?.fullListing === true
IncludeEmptyFoldersOf(a) == "fullListing" \in DOMAIN a /\ a.fullListing = TRUE

Init ==
  /\ root \in Roots
  /\ pc = "idle"
  /\ args = <<>>
  /\ tree = <<>>
  /\ jsonResult = <<>>
  /\ simplifiedTree = <<>>
  /\ ret = <<>>
  /\ calls = <<>>
  /\ out = <<>>
  /\ BlockAbsent
  /\ MarkerAbsent

\* a direct call of the exported buildFileTree on a folder of the vault
Build(folder, includeFiles, includeEmptyFolders) ==
  /\ pc = "idle"
  /\ out' = <<[folder |-> folder, includeFiles |-> includeFiles,
               includeEmptyFolders |-> includeEmptyFolders,
               result |-> buildFileTree(folder, includeFiles, includeEmptyFolders)]>>
  /\ pc' = "built"
  /\ UNCHANGED <<root, args, tree, jsonResult, simplifiedTree, ret, calls>>
  /\ UNCHANGED <<blockVars, markerVars>>

\* func, lines 132-144: the full build and its serialization
Invoke(a) ==
  /\ pc = "idle"
  /\ args' = a
  /\ tree' = buildFileTree(root, TRUE, IncludeEmptyFoldersOf(a))
  /\ jsonResult' = StringifyTree(tree')
  /\ calls' = <<[includeFiles |-> TRUE,
                 includeEmptyFolders |-> IncludeEmptyFoldersOf(a)]>>
  /\ simplifiedTree' = <<>>
  /\ ret' = <<>>
  /\ pc' = "check"
  /\ UNCHANGED <<root, out>>
  /\ UNCHANGED <<blockVars, markerVars>>

\* mutant: a reduced tree that is still too large is shrunk to nothing
Degrade_ShrinkAgain ==
  /\ pc = "check"
  /\ TooLarge(jsonResult)
  /\ simplifiedTree' = buildFileTree(root, FALSE, IncludeEmptyFoldersOf(args))
  /\ ret' = IF TooLarge(StringifyTree(simplifiedTree'))
            THEN Prompt \o StringifyTree(<<>>)
            ELSE Prompt \o StringifyTree(simplifiedTree')
  /\ calls' = Append(calls, [includeFiles |-> FALSE,
                             includeEmptyFolders |-> IncludeEmptyFoldersOf(args)])
  /\ pc' = "returned"
  /\ UNCHANGED <<root, args, tree, jsonResult, out>>
  /\ UNCHANGED <<blockVars, markerVars>>

\* mutant: the rebuild lists the file names again
Degrade_KeepsFiles ==
  /\ pc = "check"
  /\ TooLarge(jsonResult)
  /\ simplifiedTree' = buildFileTree(root, TRUE, IncludeEmptyFoldersOf(args))
  /\ ret' = Prompt \o StringifyTree(simplifiedTree')
  /\ calls' = Append(calls, [includeFiles |-> FALSE,
                             includeEmptyFolders |-> IncludeEmptyFoldersOf(args)])
  /\ pc' = "returned"
  /\ UNCHANGED <<root, args, tree, jsonResult, out>>
  /\ UNCHANGED <<blockVars, markerVars>>

\* func, lines 147-151: the tree is too large, rebuild without file lists
Degrade ==
  /\ pc = "check"
  /\ TooLarge(jsonResult)
  /\ simplifiedTree' = buildFileTree(root, FALSE, IncludeEmptyFoldersOf(args))
  /\ ret' = Prompt \o StringifyTree(simplifiedTree')
  /\ calls' = Append(calls, [includeFiles |-> FALSE,
                             includeEmptyFolders |-> IncludeEmptyFoldersOf(args)])
  /\ pc' = "returned"
  /\ UNCHANGED <<root, args, tree, jsonResult, out>>
  /\ UNCHANGED <<blockVars, markerVars>>

\* func, line 153
ReturnFull ==
  /\ pc = "check"
  /\ ~TooLarge(jsonResult)
  /\ ret' = Prompt \o jsonResult
  /\ pc' = "returned"
  /\ UNCHANGED <<root, args, tree, jsonResult, simplifiedTree, calls, out>>
  /\ UNCHANGED <<blockVars, markerVars>>

\* the call is over; its locals and its result are discarded
Discard ==
  /\ pc \in {"returned", "built"}
  /\ pc' = "idle"
  /\ args' = <<>>
  /\ tree' = <<>>
  /\ jsonResult' = <<>>
  /\ simplifiedTree' = <<>>
  /\ ret' = <<>>
  /\ calls' = <<>>
  /\ out' = <<>>
  /\ UNCHANGED root
  /\ UNCHANGED <<blockVars, markerVars>>

Next ==
  \/ \E f \in FoldersOf(root), includeFiles \in BOOLEAN,
        includeEmptyFolders \in BOOLEAN :
       Build(f, includeFiles, includeEmptyFolders)
  \/ \E a \in ArgsValues : Invoke(a)
  \/ Degrade
  \/ ReturnFull
  \/ Discard

Spec == Init /\ [][Next]_vars

\* The tool function has no loop and no await: once it has reached the test
\* of line 147 it runs on to one of its two return statements.  At
\* pc = "check" exactly one of Degrade and ReturnFull is enabled and both end
\* at pc = "returned", so weak fairness of the step to the return is weak
\* fairness of Degrade \/ ReturnFull.
Returns == pc = "check" /\ pc' = "returned"

FairSpec == Spec /\ WF_pc(Returns)

----------------------------------------------------------------------------
(* buildFileTree on folders whose files have names of every shape          *)
(* getFileExtension tells apart: no dot, a trailing dot, a leading dot,    *)
(* several dots, upper-case letters                                        *)

MaxFiles == 2

CDot == Str(<<"c", ".">>)
ATarGZ == Str(<<"a", ".", "t", "a", "r", ".", "G", "Z">>)
DotEnv == Str(<<".", "e", "n", "v">>)

ExtFileItems ==
  { File(Readme, TRUE), File(AMd, TRUE), File(BMD, TRUE), File(CDot, TRUE),
    File(ATarGZ, TRUE), File(DotEnv, TRUE), File(NTmp, FALSE) }

\* the lists of at most n files with distinct names
RECURSIVE ExtLists(_)
ExtLists(n) ==
  IF n = 0 THEN { <<>> }
  ELSE { <<>> }
       \cup { c \in { <<f>> \o rest : f \in ExtFileItems, rest \in ExtLists(n - 1) } :
                DistinctNames(c) }

\* the files directly in the root, or in its one subfolder
ExtRoots ==
  { Folder(<<>>, c) : c \in ExtLists(MaxFiles) }
  \cup { Folder(<<>>, <<Folder(Notes, c)>>) : c \in ExtLists(MaxFiles) }

ExtInit ==
  /\ root \in ExtRoots
  /\ pc = "idle"
  /\ args = <<>>
  /\ tree = <<>>
  /\ jsonResult = <<>>
  /\ simplifiedTree = <<>>
  /\ ret = <<>>
  /\ calls = <<>>
  /\ out = <<>>
  /\ BlockAbsent
  /\ MarkerAbsent

ExtNext ==
  \/ \E f \in FoldersOf(root), includeFiles \in BOOLEAN,
        includeEmptyFolders \in BOOLEAN :
       Build(f, includeFiles, includeEmptyFolders)
  \/ Discard

ExtSpec == ExtInit /\ [][ExtNext]_vars

----------------------------------------------------------------------------
(* AgentReasoningBlock: a function component with one state hook and one   *)
(* effect hook.  A change of props or of state renders the component at    *)
(* once; the effect runs after the render that changed its dependency      *)
(* (status), and before the next event is handled.                         *)

MaxBlockSteps == 4

Statuses == {"idle", "reasoning", "collapsed", "complete"}

\* the initial value of useState, lines 225-227
InitialExpanded(st, n) == st = "reasoning" \/ (st # "idle" /\ n > 0)

\* lines 236-250: nothing for idle, else the props given to Collapsible
Render(st, n, expanded) ==
  IF st = "idle" THEN Nothing
  ELSE LET isActive == st = "reasoning"
           canExpand == ~isActive /\ n > 0
       IN  [rendered |-> TRUE,
            open |-> IF canExpand THEN expanded ELSE isActive,
            disabled |-> ~canExpand]

\* the component is mounted with some props
BlockInit ==
  /\ status \in Statuses
  /\ steps \in 0..MaxBlockSteps
  /\ isExpanded = InitialExpanded(status, steps)
  /\ effectDue = TRUE
  /\ view = Render(status, steps, isExpanded)
  /\ clicked = FALSE
  /\ ToolAbsent
  /\ MarkerAbsent

\* the parent passes another status
SetStatus(st) ==
  /\ ~effectDue
  /\ st # status
  /\ status' = st
  /\ effectDue' = TRUE
  /\ view' = Render(st, steps, isExpanded)
  /\ UNCHANGED <<steps, isExpanded, clicked>>
  /\ UNCHANGED <<toolVars, markerVars>>

\* the parent passes one more step
AddStep ==
  /\ ~effectDue
  /\ steps < MaxBlockSteps
  /\ steps' = steps + 1
  /\ view' = Render(status, steps + 1, isExpanded)
  /\ UNCHANGED <<status, isExpanded, effectDue, clicked>>
  /\ UNCHANGED <<toolVars, markerVars>>

\* the effect of lines 230-234, after mount and after a change of status
Effect ==
  /\ effectDue
  /\ isExpanded' = IF status = "reasoning" THEN TRUE ELSE isExpanded
  /\ effectDue' = FALSE
  /\ view' = Render(status, steps, isExpanded')
  /\ UNCHANGED <<status, steps, clicked>>
  /\ UNCHANGED <<toolVars, markerVars>>

\* the user clicks the header: Collapsible calls onOpenChange with the
\* opposite of open, unless it is disabled
Toggle ==
  /\ ~effectDue
  /\ view.rendered
  /\ ~view.disabled
  /\ isExpanded' = ~view.open
  /\ clicked' = TRUE
  /\ view' = Render(status, steps, isExpanded')
  /\ UNCHANGED <<status, steps, effectDue>>
  /\ UNCHANGED <<toolVars, markerVars>>

BlockNext ==
  \/ \E st \in Statuses : SetStatus(st)
  \/ AddStep
  \/ Effect
  \/ Toggle

BlockSpec == BlockInit /\ [][BlockNext]_vars

----------------------------------------------------------------------------
(* The reasoning marker.  Texts are strings of one-character segments.     *)
(* A step is [summary, detail]; detail is <<>> when the step has none      *)
(* (undefined or null) and <<text>> when it has one.                       *)

MaxMarkerSteps == 2

DigitChars == {"0", "1", "2", "3", "4", "5", "6", "7", "8", "9"}

\* the characters \w matches
WordChars ==
  { UpperCase[i] : i \in 1..26 } \cup { LowerCase[i] : i \in 1..26 }
  \cup DigitChars \cup {"_"}

\* the characters "." does not match
LineTerminators == {"\n", "\r"}

\* the characters trim() removes
WhiteSpace == {" ", "\t", "\n", "\r"}

MarkerOpen ==
  Str(<<"<", "!", "-", "-", "A", "G", "E", "N", "T", "_", "R", "E", "A", "S",
        "O", "N", "I", "N", "G", ":">>)

MarkerClose == Str(<<"-", "-", ">">>)

\* `${state.status}`
StatusText(st) ==
  CASE st = "idle" -> Str(<<"i", "d", "l", "e">>)
    [] st = "reasoning" -> Str(<<"r", "e", "a", "s", "o", "n", "i", "n", "g">>)
    [] st = "collapsed" -> Str(<<"c", "o", "l", "l", "a", "p", "s", "e", "d">>)
    [] st = "complete" -> Str(<<"c", "o", "m", "p", "l", "e", "t", "e">>)

\* s.trim()
trim(s) ==
  LET inked == { i \in 1..Len(s) : s[i].c \notin WhiteSpace }
  IN  IF inked = {} THEN <<>>
      ELSE SubSeq(s, CHOOSE i \in inked : \A j \in inked : i <= j,
                     CHOOSE i \in inked : \A j \in inked : i >= j)

\* JSON.stringify of a string: quotes, with ", \ and the newline escaped
RECURSIVE EscapeFrom(_, _)
EscapeFrom(s, i) ==
  IF i > Len(s) THEN <<>>
  ELSE (IF s[i].c = "\"" THEN Ch("\\") \o Ch("\"")
        ELSE IF s[i].c = "\\" THEN Ch("\\") \o Ch("\\")
        ELSE IF s[i].c = "\n" THEN Ch("\\") \o Ch("n")
        ELSE <<s[i]>>)
       \o EscapeFrom(s, i + 1)

StringifyString(s) == Ch("\"") \o EscapeFrom(s, 1) \o Ch("\"")

SKey == Str(<<"s">>)
DKey == Str(<<"d">>)

\* lines 71-73: { s, d } for a step with a non-blank detail, else { s }
StepsPayload(stepList) ==
  [i \in 1..Len(stepList) |->
     IF stepList[i].detail # <<>> /\ trim(stepList[i].detail[1]) # <<>>
     THEN <<[k |-> SKey, v |-> stepList[i].summary],
            [k |-> DKey, v |-> stepList[i].detail[1]]>>
     ELSE <<[k |-> SKey, v |-> stepList[i].summary]>>]

\* JSON.stringify of an object whose values are strings
StringifyFlat(o) ==
  Ch("{") \o
  Join([i \in 1..Len(o) |->
          StringifyString(o[i].k) \o Ch(":") \o StringifyString(o[i].v)]) \o
  Ch("}")

\* JSON.stringify(stepsPayload)
StringifyPayload(payload) ==
  Ch("[") \o Join([i \in 1..Len(payload) |-> StringifyFlat(payload[i])]) \o Ch("]")

serializeReasoningBlock(st) ==
  IF st.status = "idle" THEN <<>>
  ELSE MarkerOpen \o StatusText(st.status) \o Ch(":")
       \o Digits(st.elapsedSeconds) \o Ch(":")
       \o StringifyPayload(StepsPayload(st.steps)) \o MarkerClose

\* the text t holds the literal lit at position i
StartsWithAt(t, i, lit) ==
  /\ i + Len(lit) - 1 <= Len(t)
  /\ SubSeq(t, i, i + Len(lit) - 1) = lit

\* the last position of the longest run of characters of set from i on,
\* i - 1 when there is none
RunEnd(t, i, set) ==
  CHOOSE j \in (i - 1)..Len(t) :
    /\ \A k \in i..j : t[k].c \in set
    /\ j = Len(t) \/ t[j + 1].c \notin set

\* where --> can end (.+?): after one or more characters, none of them a
\* line terminator
CloseAts(t, g) ==
  { q \in (g + 1)..(Len(t) - 2) :
      /\ StartsWithAt(t, q, MarkerClose)
      /\ \A k \in g..(q - 1) : t[k].c \notin LineTerminators }

\* /<!--AGENT_REASONING:(\w+):(\d+):(.+?)-->/ tried at position i: \w+ and
\* \d+ take the whole run up to the colon, .+? stops at the first -->
MatchAt(t, i) ==
  LET a == i + Len(MarkerOpen)
      b == RunEnd(t, a, WordChars)
      c == b + 2
      e == RunEnd(t, c, DigitChars)
      g == e + 2
      q == CHOOSE x \in CloseAts(t, g) : \A y \in CloseAts(t, g) : x <= y
  IN  IF /\ StartsWithAt(t, i, MarkerOpen)
         /\ b >= a /\ b + 1 <= Len(t) /\ t[b + 1].c = ":"
         /\ e >= c /\ e + 1 <= Len(t) /\ t[e + 1].c = ":"
         /\ CloseAts(t, g) # {}
      THEN [ok |-> TRUE,
            fullMatch |-> SubSeq(t, i, q + 2),
            status |-> SubSeq(t, a, b),
            elapsed |-> SubSeq(t, c, e),
            stepsJson |-> SubSeq(t, g, q - 1)]
      ELSE [ok |-> FALSE]

\* content.match(...): the match at the leftmost position that has one
match(t) ==
  LET starts == { i \in 1..Len(t) : MatchAt(t, i).ok }
  IN  IF starts = {} THEN [ok |-> FALSE]
      ELSE MatchAt(t, CHOOSE i \in starts : \A j \in starts : i <= j)

\* JSON.parse, for the texts JSON.stringify writes for arrays of strings and
\* of objects with string values, and for every text cut out of one: a
\* value is [t |-> "string" | "object" | "array", v |-> ...], and a text that
\* is no JSON gives [ok |-> FALSE] (SyntaxError)
ParseFail == [ok |-> FALSE]

RECURSIVE ParseChars(_, _, _)
ParseChars(t, i, acc) ==
  IF i > Len(t) THEN ParseFail
  ELSE IF t[i].c = "\""
  THEN [ok |-> TRUE, v |-> [t |-> "string", v |-> acc], next |-> i + 1]
  ELSE IF t[i].c = "\\"
  THEN IF i + 1 > Len(t) THEN ParseFail
       ELSE IF t[i + 1].c \in {"\"", "\\", "/"}
       THEN ParseChars(t, i + 2, Append(acc, t[i + 1]))
       ELSE IF t[i + 1].c = "n"
       THEN ParseChars(t, i + 2, acc \o Ch("\n"))
       ELSE ParseFail
  ELSE IF t[i].c \in {"\n", "\r", "\t"} THEN ParseFail
  ELSE ParseChars(t, i + 1, Append(acc, t[i]))

ParseString(t, i) ==
  IF i <= Len(t) /\ t[i].c = "\"" THEN ParseChars(t, i + 1, <<>>) ELSE ParseFail

\* the members of an object from position i on, acc the members read so far
RECURSIVE ParseMembers(_, _, _)
ParseMembers(t, i, acc) ==
  LET key == ParseString(t, i)
      val == ParseString(t, key.next + 1)
      more == Append(acc, [k |-> key.v.v, v |-> val.v])
  IN  IF ~key.ok THEN ParseFail
      ELSE IF ~(key.next <= Len(t) /\ t[key.next].c = ":") THEN ParseFail
      ELSE IF ~val.ok THEN ParseFail
      ELSE IF val.next > Len(t) THEN ParseFail
      ELSE IF t[val.next].c = "}"
      THEN [ok |-> TRUE, v |-> [t |-> "object", v |-> more], next |-> val.next + 1]
      ELSE IF t[val.next].c = ","
      THEN ParseMembers(t, val.next + 1, more)
      ELSE ParseFail

ParseObject(t, i) ==
  IF i + 1 <= Len(t) /\ t[i + 1].c = "}"
  THEN [ok |-> TRUE, v |-> [t |-> "object", v |-> <<>>], next |-> i + 2]
  ELSE ParseMembers(t, i + 1, <<>>)

\* an element of the array: a string or an object
ParseElement(t, i) ==
  IF i > Len(t) THEN ParseFail
  ELSE IF t[i].c = "\"" THEN ParseString(t, i)
  ELSE IF t[i].c = "{" THEN ParseObject(t, i)
  ELSE ParseFail

RECURSIVE ParseElements(_, _, _)
ParseElements(t, i, acc) ==
  LET el == ParseElement(t, i)
      more == Append(acc, el.v)
  IN  IF ~el.ok THEN ParseFail
      ELSE IF el.next > Len(t) THEN ParseFail
      ELSE IF t[el.next].c = "]"
      THEN [ok |-> TRUE, v |-> [t |-> "array", v |-> more], next |-> el.next + 1]
      ELSE IF t[el.next].c = ","
      THEN ParseElements(t, el.next + 1, more)
      ELSE ParseFail

ParseValue(t) ==
  IF t = <<>> THEN ParseFail
  ELSE IF t[1].c = "[" 
  THEN IF Len(t) >= 2 /\ t[2].c = "]"
       THEN [ok |-> TRUE, v |-> [t |-> "array", v |-> <<>>], next |-> 3]
       ELSE ParseElements(t, 2, <<>>)
  ELSE ParseElement(t, 1)

\* a text is JSON when one value takes all of it
JSONparse(t) ==
  LET r == ParseValue(t)
  IN  IF r.ok /\ r.next = Len(t) + 1 THEN [ok |-> TRUE, v |-> r.v] ELSE ParseFail

DigitValue(c) == CHOOSE d \in 0..9 : DigitChar(d) = c

\* parseInt(elapsed, 10) of a text of digits
RECURSIVE ParseIntFrom(_, _, _)
ParseIntFrom(digits, i, acc) ==
  IF i > Len(digits) THEN acc
  ELSE ParseIntFrom(digits, i + 1, 10 * acc + DigitValue(digits[i].c))

parseInt(digits) == ParseIntFrom(digits, 1, 0)

\* content.replace(fullMatch, ""): the first occurrence is taken out
replaceFirst(t, lit) ==
  LET at == { i \in 1..Len(t) : StartsWithAt(t, i, lit) }
      i == CHOOSE x \in at : \A y \in at : x <= y
  IN  IF at = {} THEN t
      ELSE SubSeq(t, 1, i - 1) \o SubSeq(t, i + Len(lit), Len(t))

ObjectObject ==
  Str(<<"[", "o", "b", "j", "e", "c", "t", " ", "O", "b", "j", "e", "c", "t", "]">>)

\* lines 116-125: one parsed item made a step
StepOfItem(item) ==
  IF item.t = "string" THEN [summary |-> item.v, detail |-> <<>>]
  ELSE IF HasKey(item.v, SKey) /\ ObjGet(item.v, SKey).t = "string"
  THEN [summary |-> ObjGet(item.v, SKey).v,
        detail |-> IF HasKey(item.v, DKey) /\ ObjGet(item.v, DKey).t = "string"
                   THEN <<ObjGet(item.v, DKey).v>> ELSE <<>>]
  ELSE [summary |-> ObjectObject, detail |-> <<>>]

Null == [hasReasoning |-> FALSE]

parseReasoningBlock(text) ==
  LET m == match(text)
      parsedJson == JSONparse(m.stepsJson)
  IN  IF ~m.ok THEN Null
      ELSE [hasReasoning |-> TRUE,
            status |-> m.status,
            elapsedSeconds |-> parseInt(m.elapsed),
            steps |-> IF parsedJson.ok /\ parsedJson.v.t = "array"
                      THEN [i \in 1..Len(parsedJson.v.v) |->
                              StepOfItem(parsedJson.v.v[i])]
                      ELSE <<>>,
            contentAfter |-> trim(replaceFirst(text, m.fullMatch))]

\* the states and message texts considered: summaries and details with
\* quotes, backslashes, newlines and the characters -->
Summaries ==
  { Str(<<"o", "k">>), Str(<<"a", "-", "-", ">", "b">>), Str(<<"q", "\"", "\\">>) }

Details ==
  { <<>>, <<Str(<<" ">>)>>, <<Str(<<"d", "\n", "e">>)>>, <<Str(<<"-", "-", ">">>)>> }

MarkerSteps == [summary : Summaries, detail : Details]

\* the lists of at most n steps
RECURSIVE StepLists(_)
StepLists(n) ==
  IF n = 0 THEN { <<>> }
  ELSE { <<>> } \cup { <<st>> \o rest : st \in MarkerSteps, rest \in StepLists(n - 1) }

ElapsedValues == {0, 65}

Messages == { <<>>, Str(<<" ", "h", "i", "\n">>), Str(<<"x", "-", "-", ">">>) }

MarkerInit ==
  /\ state \in [status : Statuses, elapsedSeconds : ElapsedValues,
                 steps : StepLists(MaxMarkerSteps)]
  /\ message \in Messages
  /\ content = <<>>
  /\ parsed = NotCalled
  /\ ToolAbsent
  /\ BlockAbsent

\* the marker of the state is put in front of the message text
Embed ==
  /\ content = <<>>
  /\ content' = <<serializeReasoningBlock(state) \o message>>
  /\ UNCHANGED <<state, message, parsed>>
  /\ UNCHANGED <<toolVars, blockVars>>

\* the message content is read back
Parse ==
  /\ content # <<>>
  /\ parsed = NotCalled
  /\ parsed' = [called |-> TRUE, result |-> parseReasoningBlock(content[1])]
  /\ UNCHANGED <<state, message, content>>
  /\ UNCHANGED <<toolVars, blockVars>>

MarkerNext == Embed \/ Parse

MarkerSpec == MarkerInit /\ [][MarkerNext]_vars

----------------------------------------------------------------------------
(* Reference notions the properties are stated with *)

\* the key a file is counted under
KeyOf(name) ==
  LET e == getFileExtension(name) IN IF e = <<>> THEN Unknown ELSE e

IsQualifying(item) == isTFile(item) /\ item.keep

\* the names of the qualifying direct files of a folder, in child order
RECURSIVE QualNames(_, _)
QualNames(children, i) ==
  IF i > Len(children) THEN <<>>
  ELSE (IF IsQualifying(children[i]) THEN <<children[i].name>> ELSE <<>>)
       \o QualNames(children, i + 1)

QualFiles(folder) == QualNames(folder.children, 1)

\* the direct subfolders of a folder
SubFolderSet(folder) ==
  { folder.children[i] : i \in { j \in 1..Len(folder.children) :
                                   isTFolder(folder.children[j]) } }

\* histograms are functions from a key to a count of at least 1
EmptyHist == [k \in {} |-> 0]

HistAt(h, k) == IF k \in DOMAIN h THEN h[k] ELSE 0

HistPlus(h1, h2) ==
  [k \in (DOMAIN h1) \cup (DOMAIN h2) |-> HistAt(h1, k) + HistAt(h2, k)]

HistEq(h1, h2) ==
  /\ DOMAIN h1 = DOMAIN h2
  /\ \A k \in DOMAIN h1 : h1[k] = h2[k]

\* the histogram of the keys of a sequence of file names
HistOfNames(names) ==
  [k \in { KeyOf(names[i]) : i \in 1..Len(names) } |->
     Cardinality({ i \in 1..Len(names) : KeyOf(names[i]) = k })]

HistOwn(folder) == HistOfNames(QualFiles(folder))

\* the names of all qualifying files of a subtree
RECURSIVE SubtreeNames(_, _)
SubtreeNames(children, i) ==
  IF i > Len(children) THEN <<>>
  ELSE (IF isTFolder(children[i]) THEN SubtreeNames(children[i].children, 1)
        ELSE IF children[i].keep THEN <<children[i].name>> ELSE <<>>)
       \o SubtreeNames(children, i + 1)

HistSubtree(folder) == HistOfNames(SubtreeNames(folder.children, 1))

\* the extensionCounts of a node as a histogram, absent read as empty
CountsOf(node) ==
  IF HasKey(node, ExtensionCountsKey)
  THEN LET o == ObjGet(node, ExtensionCountsKey)
       IN  [k \in { o[i].k : i \in 1..Len(o) } |-> ObjGet(o, k)]
  ELSE EmptyHist

\* the histogram of a build result: that of its node, empty for no node
CountsOfResult(res) == IF res = <<>> THEN EmptyHist ELSE CountsOf(res[1].v)

RECURSIVE HistSum(_)
HistSum(hs) == IF hs = <<>> THEN EmptyHist ELSE HistPlus(Head(hs), HistSum(Tail(hs)))

\* the folders that appear in a build result, each with its node
RECURSIVE Pairs(_, _)
Pairs(folder, res) ==
  IF res = <<>> THEN {}
  ELSE LET node == res[1].v
           subs == IF HasKey(node, SubFoldersKey)
                   THEN ObjGet(node, SubFoldersKey) ELSE <<>>
       IN  { <<folder, node>> }
           \cup UNION { Pairs(c, <<[k |-> c.name, v |-> ObjGet(subs, c.name)]>>) :
                          c \in { d \in SubFolderSet(folder) : HasKey(subs, d.name) } }

Called == out # <<>>

----------------------------------------------------------------------------
(* C1: the extensionCounts of every folder of a build output is the       *)
(* histogram of its own qualifying files plus the sum of the               *)
(* extensionCounts of its direct subfolders whose build result is          *)
(* non-empty, and therefore the histogram of the qualifying files of its   *)
(* whole subtree.                                                          *)

C1_SubResults(F, includeFiles, includeEmptyFolders) ==
  LET cs == F.children
  IN  [i \in 1..Len(cs) |->
         IF isTFolder(cs[i])
         THEN CountsOfResult(buildFileTree(cs[i], includeFiles, includeEmptyFolders))
         ELSE EmptyHist]

C1_ExtensionCountsAreSums ==
  Called =>
    \A p \in Pairs(out[1].folder, out[1].result) :
      /\ HistEq(CountsOf(p[2]),
                HistPlus(HistOwn(p[1]),
                         HistSum(C1_SubResults(p[1], out[1].includeFiles,
                                               out[1].includeEmptyFolders))))
      /\ HistEq(CountsOf(p[2]), HistSubtree(p[1]))

\* a count of 2 made of one own file and one folded from a subfolder,
\* in a build that lists no file names
C1_Witness ==
  /\ Called
  /\ ~out[1].includeFiles
  /\ \E p \in Pairs(out[1].folder, out[1].result) :
       /\ \E c \in SubFolderSet(p[1]) :
            /\ HistSubtree(c) # EmptyHist
            /\ \E k \in DOMAIN CountsOf(p[2]) :
                 CountsOf(p[2])[k] = 2 /\ HistAt(HistOwn(p[1]), k) = 1

----------------------------------------------------------------------------
(* C2 (as stated): the outermost result always has exactly one key; an    *)
(* unnamed root without any qualifying file, summarized with               *)
(* fullListing=false, gives JSON {"vault":{}}.                             *)

\* the tree whose serialization the tool returned
ReturnedTree == IF Len(calls) = 2 THEN simplifiedTree ELSE tree

NoQualifyingFile(folder) == HistSubtree(folder) = EmptyHist

EmptyVaultText ==
  Str(<<"{", "\"", "v", "a", "u", "l", "t", "\"", ":", "{", "}", "}">>)

VaultKeyPrefix == Str(<<"{", "\"", "v", "a", "u", "l", "t", "\"", ":">>)

----------------------------------------------------------------------------
(* C3: a folder without qualifying direct files and without a direct       *)
(* subfolder of non-empty build result builds to the empty mapping when    *)
(* includeEmptyFolders is false and to {name: {}} ("vault" for no name)    *)
(* when it is true; every other folder builds to a one-entry mapping under *)
(* its name (or "vault") whose node has at least one field.                *)

NameOrVault(folder) == IF folder.name # <<>> THEN folder.name ELSE Vault

C3_IsEmptyFolder(folder, includeFiles, includeEmptyFolders) ==
  /\ QualFiles(folder) = <<>>
  /\ \A c \in SubFolderSet(folder) :
       buildFileTree(c, includeFiles, includeEmptyFolders) = <<>>

C3_EmptyFolderElision ==
  Called =>
    LET f == out[1].folder
        res == out[1].result
    IN  IF C3_IsEmptyFolder(f, out[1].includeFiles, out[1].includeEmptyFolders)
        THEN res = IF out[1].includeEmptyFolders
                   THEN <<[k |-> NameOrVault(f), v |-> <<>>]>>
                   ELSE <<>>
        ELSE /\ Len(res) = 1
             /\ res[1].k = NameOrVault(f)
             /\ Len(res[1].v) >= 1

\* a named folder holding only a dropped file, built with includeEmptyFolders
C3_Witness ==
  /\ Called
  /\ out[1].includeEmptyFolders
  /\ out[1].folder.name # <<>>
  /\ out[1].folder.children # <<>>
  /\ C3_IsEmptyFolder(out[1].folder, out[1].includeFiles, TRUE)
  /\ out[1].result = <<[k |-> out[1].folder.name, v |-> <<>>]>>

----------------------------------------------------------------------------
(* C4: the tool returns the preamble followed by the full serialization   *)
(* exactly when that serialization has at most 500000 characters, and the  *)
(* preamble followed by the reduced serialization (second build, no file   *)
(* lists, same includeEmptyFolders) exactly when it has more; at exactly   *)
(* 500000 the full form is returned.                                       *)

FullText(a) == StringifyTree(buildFileTree(root, TRUE, IncludeEmptyFoldersOf(a)))

ReducedText(a) == StringifyTree(buildFileTree(root, FALSE, IncludeEmptyFoldersOf(a)))

----------------------------------------------------------------------------
(* C5: degrading is one-shot.  In an invocation build is called once in    *)
(* full mode and at most once more in reduced mode; the reduced form is    *)
(* returned as it is, whatever its length; every invocation returns.       *)

C5_CallsShape ==
  /\ Len(calls) <= 2
  /\ pc \in {"check", "returned"} => (Len(calls) >= 1 /\ calls[1].includeFiles)
  /\ Len(calls) = 2 =>
       /\ ~calls[2].includeFiles
       /\ calls[2].includeEmptyFolders = calls[1].includeEmptyFolders
       /\ pc = "returned"
       /\ ret = Prompt \o ReducedText(args)

C5_OneShotDegrade ==
  /\ []C5_CallsShape
  /\ [][pc = "check" => (pc' = "returned" /\ ret' # <<>>)]_vars
  /\ (pc = "check") ~> (pc = "returned")

\* the reduced form is returned although it is itself longer than 500000
C5_Witness ==
  /\ pc = "returned"
  /\ Len(calls) = 2
  /\ StrLen(ReducedText(args)) > 500000
  /\ ret = Prompt \o ReducedText(args)

----------------------------------------------------------------------------
(* C6: a build with includeFiles=false has no files field in any node at   *)
(* any depth; when the full serialization is longer than 500000 the text   *)
(* the tool returns holds no "files" key.                                  *)

\* every node of a result, at any depth
RECURSIVE AllNodes(_)
AllNodes(t) ==
  UNION { {t[i].v} \cup (IF HasKey(t[i].v, SubFoldersKey)
                         THEN AllNodes(ObjGet(t[i].v, SubFoldersKey))
                         ELSE {}) : i \in 1..Len(t) }

\* the text holds the key written as JSON.stringify writes it
ContainsKey(text, key) ==
  LET q == Quote(key) \o Ch(":")
  IN  \E i \in 1..(Len(text) - Len(q) + 1) : SubSeq(text, i, i + Len(q) - 1) = q

C6_ReducedHasNoFiles ==
  /\ (Called /\ ~out[1].includeFiles) =>
       \A n \in AllNodes(out[1].result) : ~HasKey(n, FilesKey)
  /\ (pc = "returned" /\ StrLen(FullText(args)) > 500000) =>
       ~ContainsKey(ret, FilesKey)

\* an oversized full tree with file lists below a subfolder, returned reduced
C6_Witness ==
  /\ pc = "returned"
  /\ StrLen(jsonResult) > 500000
  /\ ContainsKey(jsonResult, FilesKey)
  /\ ContainsKey(ret, SubFoldersKey)
  /\ ContainsKey(ret, ExtensionCountsKey)

----------------------------------------------------------------------------
(* C7: the reduced output is the full output with every files field        *)
(* removed: same top-level key, same subFolders at every depth, same       *)
(* extensionCounts in every node.                                          *)

RECURSIVE StripFiles(_)
RECURSIVE StripNode(_, _)

\* the entries of a node from the i-th on, without files
StripNode(node, i) ==
  IF i > Len(node) THEN <<>>
  ELSE (IF node[i].k = FilesKey THEN <<>>
        ELSE IF node[i].k = SubFoldersKey
             THEN <<[k |-> node[i].k, v |-> StripFiles(node[i].v)]>>
             ELSE <<node[i]>>)
       \o StripNode(node, i + 1)

StripFiles(t) == [i \in 1..Len(t) |-> [k |-> t[i].k, v |-> StripNode(t[i].v, 1)]]

C7_ReducedIsFullWithoutFiles ==
  /\ (Called /\ ~out[1].includeFiles) =>
       out[1].result =
         StripFiles(buildFileTree(out[1].folder, TRUE, out[1].includeEmptyFolders))
  /\ Len(calls) = 2 => simplifiedTree = StripFiles(tree)

\* a reduced build of a folder whose full build lists files at two depths
C7_Witness ==
  /\ Called
  /\ ~out[1].includeFiles
  /\ LET full == buildFileTree(out[1].folder, TRUE, out[1].includeEmptyFolders)
     IN  /\ Cardinality({ n \in AllNodes(full) : HasKey(n, FilesKey) }) >= 2
         /\ out[1].result # full

----------------------------------------------------------------------------
(* C8: a node has a files field exactly when includeFiles is true and the  *)
(* folder has a qualifying direct file; files is then the names of the     *)
(* folder's qualifying direct files in child order.                        *)

C8_FilesAreOwnQualifying ==
  Called =>
    \A p \in Pairs(out[1].folder, out[1].result) :
      /\ HasKey(p[2], FilesKey) <=> (out[1].includeFiles /\ QualFiles(p[1]) # <<>>)
      /\ HasKey(p[2], FilesKey) => ObjGet(p[2], FilesKey) = QualFiles(p[1])

\* a folder listing two files in child order, a dropped file among its children
C8_Witness ==
  /\ Called
  /\ out[1].includeFiles
  /\ \E p \in Pairs(out[1].folder, out[1].result) :
       /\ HasKey(p[2], FilesKey)
       /\ Len(ObjGet(p[2], FilesKey)) = 2
       /\ \E i \in 1..Len(p[1].children) :
            isTFile(p[1].children[i]) /\ ~p[1].children[i].keep

----------------------------------------------------------------------------
(* C9: every field present in a node of a build output is non-trivial:     *)
(* files is not empty, subFolders is not empty, extensionCounts is not     *)
(* empty and every count is at least 1.  A whole node is {} only for an    *)
(* empty folder built with includeEmptyFolders.                            *)

C9_FieldNonTrivial(node) ==
  /\ HasKey(node, FilesKey) => Len(ObjGet(node, FilesKey)) >= 1
  /\ HasKey(node, SubFoldersKey) => Len(ObjGet(node, SubFoldersKey)) >= 1
  /\ HasKey(node, ExtensionCountsKey) =>
       LET o == ObjGet(node, ExtensionCountsKey)
       IN  Len(o) >= 1 /\ \A i \in 1..Len(o) : o[i].v >= 1

C9_NoEmptyField ==
  Called =>
    /\ \A n \in AllNodes(out[1].result) : C9_FieldNonTrivial(n)
    /\ \A p \in Pairs(out[1].folder, out[1].result) :
         p[2] = <<>> => /\ out[1].includeEmptyFolders
                        /\ QualFiles(p[1]) = <<>>
                        /\ SubFolderSet(p[1]) = {}

\* an output with an empty node next to a node that has counts but no files field
C9_Witness ==
  /\ Called
  /\ \E n \in AllNodes(out[1].result) : n = <<>>
  /\ \E n \in AllNodes(out[1].result) :
       HasKey(n, ExtensionCountsKey) /\ ~HasKey(n, FilesKey)

----------------------------------------------------------------------------
(* C10: with includeEmptyFolders, a subfolder that builds to the empty     *)
(* node {} is still recorded under its name in its parent's subFolders and *)
(* adds nothing to the parent's extensionCounts; the root holding only the *)
(* empty folder Archive gives {"vault":{"subFolders":{"Archive":{}}}}.     *)

\* a folder that builds to an empty node: no qualifying file, no subfolder
C10_IsBare(folder) == QualFiles(folder) = <<>> /\ SubFolderSet(folder) = {}

\* the children of a folder without its folders that build to an empty node
RECURSIVE C10_WithoutBare(_, _)
C10_WithoutBare(children, i) ==
  IF i > Len(children) THEN <<>>
  ELSE (IF isTFolder(children[i]) /\ C10_IsBare(children[i]) THEN <<>>
        ELSE <<children[i]>>)
       \o C10_WithoutBare(children, i + 1)

ArchiveOnlyText ==
  Str(<<"{", "\"", "v", "a", "u", "l", "t", "\"", ":", "{",
        "\"", "s", "u", "b", "F", "o", "l", "d", "e", "r", "s", "\"", ":", "{",
        "\"", "A", "r", "c", "h", "i", "v", "e", "\"", ":", "{", "}",
        "}", "}", "}">>)

C10_EmptySubfolderKept ==
  /\ (Called /\ out[1].includeEmptyFolders) =>
       \A p \in Pairs(out[1].folder, out[1].result) :
         /\ \A c \in { d \in SubFolderSet(p[1]) : C10_IsBare(d) } :
              /\ HasKey(p[2], SubFoldersKey)
              /\ HasKey(ObjGet(p[2], SubFoldersKey), c.name)
              /\ ObjGet(ObjGet(p[2], SubFoldersKey), c.name) = <<>>
         /\ HistEq(CountsOf(p[2]),
                   HistOfNames(SubtreeNames(C10_WithoutBare(p[1].children, 1), 1)))
  /\ (pc = "returned" /\ IncludeEmptyFoldersOf(args)
        /\ root.children = <<Folder(Archive, <<>>)>>) =>
       ret = Prompt \o ArchiveOnlyText

\* fullListing on the root that holds only the empty folder Archive
C10_Witness ==
  /\ pc = "returned"
  /\ IncludeEmptyFoldersOf(args)
  /\ root.children = <<Folder(Archive, <<>>)>>
  /\ ret = Prompt \o ArchiveOnlyText

----------------------------------------------------------------------------
(* C11: every qualifying file adds exactly 1 to exactly one key of         *)
(* extensionCounts; the key is what follows the last "." of the file name, *)
(* lowercased, and the literal "unknown" when the name has no "." or       *)
(* nothing follows its last "." (a file named README gives {"unknown": 1}). *)
(* No key is the empty string and no key holds an upper-case letter.       *)

\* the position of the last "." of a name, 0 when it has none
C11_LastDot(name) ==
  IF \E i \in 1..Len(name) : name[i].c = "."
  THEN CHOOSE i \in 1..Len(name) :
         /\ name[i].c = "."
         /\ \A j \in (i + 1)..Len(name) : name[j].c # "."
  ELSE 0

C11_IsUpper(c) == \E i \in 1..26 : UpperCase[i] = c

\* k is s with every upper-case letter replaced by its lower-case letter
C11_IsLowerOf(k, s) ==
  /\ Len(k) = Len(s)
  /\ \A i \in 1..Len(s) :
       /\ k[i].n = s[i].n
       /\ ~C11_IsUpper(k[i].c)
       /\ \/ k[i].c = s[i].c
          \/ \E j \in 1..26 : UpperCase[j] = s[i].c /\ LowerCase[j] = k[i].c

\* k is the key the claim gives the file name
C11_IsKeyOf(k, name) ==
  LET d == C11_LastDot(name)
      after == SubSeq(name, d + 1, Len(name))
  IN  IF d = 0 \/ after = <<>> THEN k = Unknown ELSE C11_IsLowerOf(k, after)

\* the extensionCounts a build gives the folder whose children are the
\* first n children of F
C11_CountsUpTo(F, n) ==
  CountsOfResult(buildFileTree(Folder(F.name, SubSeq(F.children, 1, n)),
                               out[1].includeFiles, out[1].includeEmptyFolders))

C11_OneKeyPerFile ==
  Called =>
    LET F == out[1].folder
        counts == CountsOfResult(out[1].result)
    IN  /\ \A i \in 1..Len(F.children) :
             IsQualifying(F.children[i]) =>
               \E k \in DOMAIN C11_CountsUpTo(F, i) :
                 /\ C11_IsKeyOf(k, F.children[i].name)
                 /\ HistEq(C11_CountsUpTo(F, i),
                           HistPlus(C11_CountsUpTo(F, i - 1), [x \in {k} |-> 1]))
        /\ \A k \in DOMAIN counts :
             /\ k # <<>>
             /\ \A i \in 1..Len(k) : ~C11_IsUpper(k[i].c)
        /\ (F.children = <<File(Readme, TRUE)>> =>
             HistEq(counts, [x \in {Unknown} |-> 1]))

\* a build of a folder holding a file whose name ends in a dot and a file
\* with an upper-case extension after two dots
C11_Witness ==
  /\ Called
  /\ \E i, j \in 1..Len(out[1].folder.children) :
       /\ out[1].folder.children[i] = File(CDot, TRUE)
       /\ out[1].folder.children[j] = File(ATarGZ, TRUE)
  /\ HistEq(CountsOfResult(out[1].result),
            [x \in {Unknown, Str(<<"g", "z">>)} |-> 1])

----------------------------------------------------------------------------
(* C12 (as stated): whenever the tool degrades (the full serialization is  *)
(* longer than 500000), the reduced serialization is strictly shorter than *)
(* the full one, for every hierarchy and both values of fullListing.       *)

C12_Degraded == pc = "returned" /\ Len(calls) = 2

C12_ReducedLength == StrLen(StringifyTree(simplifiedTree))

C12_FullLength == StrLen(jsonResult)

C12_StrictlySmaller ==
  C12_Degraded => C12_ReducedLength < C12_FullLength

(* C12 (amended): whenever the tool degrades, the reduced serialization is *)
(* never longer than the full one; it is strictly shorter exactly when the *)
(* vault holds a qualifying file, which is always so when fullListing is   *)
(* not true; with fullListing = true and no qualifying file the two        *)
(* serializations are the same text.                                       *)
C12_ReducedNotLonger ==
  C12_Degraded =>
    /\ C12_ReducedLength <= C12_FullLength
    /\ (C12_ReducedLength < C12_FullLength) <=> ~NoQualifyingFile(root)
    /\ NoQualifyingFile(root) => StringifyTree(simplifiedTree) = jsonResult
    /\ ~IncludeEmptyFoldersOf(args) => C12_ReducedLength < C12_FullLength

\* a degraded full listing that holds both a listed file and an empty folder
C12_Witness ==
  /\ C12_Degraded
  /\ IncludeEmptyFoldersOf(args)
  /\ C12_ReducedLength < C12_FullLength
  /\ \E c \in SubFolderSet(root) : NoQualifyingFile(c)

----------------------------------------------------------------------------
(* C13: for every hierarchy and every includeFiles, the output built with  *)
(* includeEmptyFolders = false is the output built with                    *)
(* includeEmptyFolders = true from which every folder whose subtree holds  *)
(* no qualifying file has been removed (together with a subFolders field   *)
(* left empty, and the whole mapping when the built folder itself goes).   *)
(* A folder appears in the former exactly when its subtree holds a         *)
(* qualifying file, and the files and extensionCounts of a surviving       *)
(* folder are the same in both outputs.                                    *)

C13_ChildNamed(folder, name) ==
  CHOOSE c \in SubFolderSet(folder) : c.name = name

\* the entries of a subFolders object whose folder holds a qualifying file,
\* each pruned in its turn; the node with its subFolders pruned
RECURSIVE C13_PruneSubs(_, _, _), C13_PruneNode(_, _, _)
C13_PruneSubs(folder, subs, i) ==
  IF i > Len(subs) THEN <<>>
  ELSE LET c == C13_ChildNamed(folder, subs[i].k)
       IN  (IF NoQualifyingFile(c) THEN <<>>
            ELSE <<[k |-> subs[i].k, v |-> C13_PruneNode(c, subs[i].v, 1)]>>)
           \o C13_PruneSubs(folder, subs, i + 1)

C13_PruneNode(folder, node, i) ==
  IF i > Len(node) THEN <<>>
  ELSE (IF node[i].k = SubFoldersKey
        THEN LET kept == C13_PruneSubs(folder, node[i].v, 1)
             IN  IF kept = <<>> THEN <<>>
                 ELSE <<[k |-> SubFoldersKey, v |-> kept]>>
        ELSE <<node[i]>>)
       \o C13_PruneNode(folder, node, i + 1)

C13_Prune(folder, res) ==
  IF NoQualifyingFile(folder) THEN <<>>
  ELSE <<[k |-> res[1].k, v |-> C13_PruneNode(folder, res[1].v, 1)]>>

\* the two outputs for the folder and includeFiles of the build made: the
\* one that was built, and the one for the other includeEmptyFolders
C13_Without ==
  IF out[1].includeEmptyFolders
  THEN buildFileTree(out[1].folder, out[1].includeFiles, FALSE)
  ELSE out[1].result

C13_With ==
  IF out[1].includeEmptyFolders
  THEN out[1].result
  ELSE buildFileTree(out[1].folder, out[1].includeFiles, TRUE)

C13_Field(node, key) == IF HasKey(node, key) THEN <<ObjGet(node, key)>> ELSE <<>>

C13_ElisionIsPruning ==
  Called =>
    /\ C13_Without = C13_Prune(out[1].folder, C13_With)
    /\ \A G \in FoldersOf(out[1].folder) :
         (\E p \in Pairs(out[1].folder, C13_Without) : p[1] = G)
           <=> ~NoQualifyingFile(G)
    /\ \A p \in Pairs(out[1].folder, C13_Without) :
         \E q \in Pairs(out[1].folder, C13_With) :
           /\ q[1] = p[1]
           /\ C13_Field(q[2], FilesKey) = C13_Field(p[2], FilesKey)
           /\ C13_Field(q[2], ExtensionCountsKey)
                = C13_Field(p[2], ExtensionCountsKey)

\* a build without empty folders of a folder that has a file of its own and
\* only subfolders without files: the subFolders field itself is gone
C13_Witness ==
  /\ Called
  /\ ~out[1].includeEmptyFolders
  /\ QualFiles(out[1].folder) # <<>>
  /\ SubFolderSet(out[1].folder) # {}
  /\ \A c \in SubFolderSet(out[1].folder) : NoQualifyingFile(c)
  /\ HasKey(C13_With[1].v, SubFoldersKey)
  /\ ~HasKey(out[1].result[1].v, SubFoldersKey)

----------------------------------------------------------------------------
(* C14: as long as the user has not clicked the header, the block is       *)
(* closed whenever status is "collapsed" (also right after "reasoning"     *)
(* with one or more steps), it is open and cannot be toggled whenever      *)
(* status is "reasoning", and nothing is rendered whenever status is       *)
(* "idle".                                                                 *)

C14_CollapsedIsClosed ==
  ~clicked =>
    /\ status = "collapsed" => (view.rendered /\ ~view.open)
    /\ status = "reasoning" => (view.rendered /\ view.open /\ view.disabled)
    /\ status = "idle" => ~view.rendered

----------------------------------------------------------------------------
(* C15: the marker round trip.  For a state whose status is not "idle",    *)
(* parsing the serialized state followed by any message text gives a       *)
(* block with the same status, the same elapsedSeconds, the same step      *)
(* summaries with every non-blank detail kept and every blank one dropped, *)
(* and contentAfter the trimmed message text, also when a summary or a     *)
(* detail holds the characters -->.  For status "idle" the serialization   *)
(* is the empty string, and a message without a marker parses to null.     *)

C15_IsBlank(s) == \A i \in 1..Len(s) : s[i].c \in WhiteSpace

\* the text with its white space at both ends removed
C15_Trimmed(s) ==
  IF C15_IsBlank(s) THEN <<>>
  ELSE LET lo == CHOOSE i \in 1..Len(s) : ~C15_IsBlank(<<s[i]>>) /\ C15_IsBlank(SubSeq(s, 1, i - 1))
           hi == CHOOSE i \in 1..Len(s) : ~C15_IsBlank(<<s[i]>>) /\ C15_IsBlank(SubSeq(s, i + 1, Len(s)))
       IN  SubSeq(s, lo, hi)

C15_KeptDetail(d) == IF d = <<>> \/ C15_IsBlank(d[1]) THEN <<>> ELSE d

C15_HasMarker(text) == \E i \in 1..Len(text) : StartsWithAt(text, i, MarkerOpen)

C15_RoundTrip ==
  parsed # NotCalled =>
    IF state.status = "idle"
    THEN /\ content[1] = message
         /\ ~C15_HasMarker(message) => parsed.result = Null
    ELSE /\ parsed.result # Null
         /\ parsed.result.status = StatusText(state.status)
         /\ parsed.result.elapsedSeconds = state.elapsedSeconds
         /\ Len(parsed.result.steps) = Len(state.steps)
         /\ \A i \in 1..Len(state.steps) :
              /\ parsed.result.steps[i].summary = state.steps[i].summary
              /\ parsed.result.steps[i].detail
                   = C15_KeptDetail(state.steps[i].detail)
         /\ parsed.result.contentAfter = C15_Trimmed(message)

----------------------------------------------------------------------------
(* Type sanity *)

TypeOK ==
  /\ pc \in {"idle", "built", "check", "returned"}
  /\ Len(calls) <= 2

====
